---- MODULE Spec2Model ----
(***************************************************************************)
(* DerivTradingService (src/utils/derivTrading.ts): the WebSocket session  *)
(* manager with request correlation, per-request timeouts, reconnection    *)
(* and the typed trading operations built on sendRequest.                  *)
(*                                                                         *)
(* One action is one task of the JavaScript event loop (a caller's call, a *)
(* socket event, a timer firing) together with every promise continuation  *)
(* (microtask) it triggers.  A settled request has exactly one awaiter, so *)
(* the continuations of a task form a chain, followed here by recursion.   *)
(***************************************************************************)
EXTENDS Integers, Sequences, FiniteSets, Bags, TLC

VARIABLES
  ws,                 \* this.ws: 0 is null, otherwise an index into sockets
  requestId,          \* this.requestId
  pendingRequests,    \* this.pendingRequests: req_id -> the sendRequest call holding {resolve, reject}
  messageHandlers,    \* this.messageHandlers
  reconnectAttempts,  \* this.reconnectAttempts
  isConnected,        \* this.isConnected
  sockets,            \* every WebSocket created by connect(), with the promise connect() returned
  calls,              \* every invocation of sendRequest
  ops,                \* every invocation of a typed operation
  timers,             \* the armed setTimeout callbacks (a bag)
  inbound,            \* the message events dispatched so far: how many, and the last one
  delivered,          \* per subscriber, the calls of its handler: how many, and the last argument
  toolCalls,          \* every MT5 tool call handled by the dispatcher of App.tsx
  derivServiceInstance, \* the module variable of the factory: 0 is null, otherwise an index into instances
  apiTokenEnv,        \* process.env.DERIV_API_TOKEN, an optional string
  instances,          \* the apiToken of every DerivTradingService constructed by the factory
  factoryReturns      \* every call of createDerivTradingService: the token it read, the value it returned

vars == <<ws, requestId, pendingRequests, messageHandlers, reconnectAttempts,
          isConnected, sockets, calls, ops, timers, inbound, delivered, toolCalls,
          derivServiceInstance, apiTokenEnv, instances, factoryReturns>>

-----------------------------------------------------------------------------
(* Bounds of the model *)

MaxSockets == 2
MaxOps == 2
MaxMessages == 4
MaxHandlers == 1
MaxConnectCalls == 2
MaxTeardownOps == 1
MaxTeardownMessages == 3
MaxLifecycleConnects == 1
MaxSurfaceOps == 1
MaxSurfaceMessages == 3
MaxLivenessOps == 1
MaxOpenFailures == 1
MaxLifecycleSockets == 6
MaxToolCalls == 2
MaxDispatchMessages == 2
MaxFactoryCalls == 4
MaxFaultSockets == 3
MaxFaultMessages == 2
MaxExhaustionSockets == 7

(* Program constants *)

maxReconnectAttempts == 5
baseDelay == 3000

-----------------------------------------------------------------------------
(* Values *)

Handlers == 1..MaxHandlers
Amounts == {5, 7}
ProposalIds == {"p1", "p2"}
GatewayErrors == {"Invalid symbol"}
Logins == {"MTR1"}
Tickets == {42}
StopLevels == {0, 7}
Symbols == {"EURUSD"}
Tokens == {"", "tok1", "tok2"}
OrderKinds == {"market", "limit", "stop"}
Prices == {5}
Quotes == {0, 943}

\* An optional value: the empty set when it is undefined, otherwise {value}.
None == {}
Some(v) == {v}
Optional(values) == {None} \cup {Some(v) : v \in values}
Value(opt) == CHOOSE v \in opt : TRUE

NoValue == [error |-> "", body |-> ""]
ErrorValue(message) == [error |-> message, body |-> ""]

EmptyMap == [k \in {} |-> 0]
MapDelete(m, k) == [x \in DOMAIN m \ {k} |-> m[x]]
MapSet(m, k, v) == [x \in DOMAIN m \cup {k} |-> IF x = k THEN v ELSE m[x]]

Timer(type, arg) == [type |-> type, arg |-> arg]
Arm(bag, timer) == bag (+) SetToBag({timer})
Disarm(bag, timer) == bag (-) SetToBag({timer})

State ==
  [ws |-> ws, requestId |-> requestId, pendingRequests |-> pendingRequests,
   messageHandlers |-> messageHandlers, reconnectAttempts |-> reconnectAttempts,
   isConnected |-> isConnected, sockets |-> sockets, calls |-> calls, ops |-> ops,
   timers |-> timers, inbound |-> inbound, delivered |-> delivered,
   toolCalls |-> toolCalls, derivServiceInstance |-> derivServiceInstance,
   apiTokenEnv |-> apiTokenEnv, instances |-> instances,
   factoryReturns |-> factoryReturns]

Commit(s) ==
  /\ ws' = s.ws
  /\ requestId' = s.requestId
  /\ pendingRequests' = s.pendingRequests
  /\ messageHandlers' = s.messageHandlers
  /\ reconnectAttempts' = s.reconnectAttempts
  /\ isConnected' = s.isConnected
  /\ sockets' = s.sockets
  /\ calls' = s.calls
  /\ ops' = s.ops
  /\ timers' = s.timers
  /\ inbound' = s.inbound
  /\ delivered' = s.delivered
  /\ toolCalls' = s.toolCalls
  /\ derivServiceInstance' = s.derivServiceInstance
  /\ apiTokenEnv' = s.apiTokenEnv
  /\ instances' = s.instances
  /\ factoryReturns' = s.factoryReturns

-----------------------------------------------------------------------------
(* The typed operations: request shapes and result shapes *)

NullOps == {"getAccountInfo", "getSymbolPrice", "getMT5AccountInfo"}
ListOps == {"getOpenPositions", "getAvailableSymbols", "getMT5Accounts", "getMT5Symbols",
            "getMT5OpenPositions", "getMT5TradeHistory", "getTransactionHistory",
            "getProfitTable"}
TradeOps == {"buyContract", "sellContract", "mt5NewOrder", "mt5ClosePosition",
             "mt5ModifyPosition"}
OpKinds == NullOps \cup ListOps \cup TradeOps

\* Operations that await a second request after the first one resolved.
TwoRequestOps == {"getAccountInfo", "getMT5Symbols"}

\* The params objects of mt5ModifyPosition.
ModifyParams ==
  [login : Logins, ticket : Tickets,
   stop_loss : Optional(StopLevels), take_profit : Optional(StopLevels)]

\* The params objects of mt5NewOrder.
OrderParams == [order_type : Optional(OrderKinds), price : Optional(Prices)]

\* The parameters a caller may pass (only those the modelled behaviour reads).
ParamsOf(kind) ==
  CASE kind = "buyContract"       -> {[amount |-> a] : a \in Amounts}
    [] kind = "mt5ModifyPosition" -> ModifyParams
    [] kind = "mt5NewOrder"       -> OrderParams
    [] OTHER                      -> {[amount |-> 0]}

\* A mutation of ModifyRequest: the optional fields are tested for truthiness,
\* as mt5NewOrder tests them.
ModifyRequestTruthy(params) ==
  LET base == [type |-> "mt5_modify_position", login |-> params.login,
               ticket |-> params.ticket]
      sl == params.stop_loss \notin {None, Some(0)}
      tp == params.take_profit \notin {None, Some(0)}
  IN CASE sl /\ tp   -> [type |-> base.type, login |-> base.login, ticket |-> base.ticket,
                         stop_loss |-> Value(params.stop_loss),
                         take_profit |-> Value(params.take_profit)]
       [] sl /\ ~tp  -> [type |-> base.type, login |-> base.login, ticket |-> base.ticket,
                         stop_loss |-> Value(params.stop_loss)]
       [] ~sl /\ tp  -> [type |-> base.type, login |-> base.login, ticket |-> base.ticket,
                         take_profit |-> Value(params.take_profit)]
       [] OTHER      -> base

\* modifyRequest of mt5ModifyPosition: login and ticket always, stop_loss and
\* take_profit only when they are not undefined.
ModifyRequest(params) ==
  LET base == [type |-> "mt5_modify_position", login |-> params.login,
               ticket |-> params.ticket]
      sl == params.stop_loss # None
      tp == params.take_profit # None
  IN CASE sl /\ tp   -> [type |-> base.type, login |-> base.login, ticket |-> base.ticket,
                         stop_loss |-> Value(params.stop_loss),
                         take_profit |-> Value(params.take_profit)]
       [] sl /\ ~tp  -> [type |-> base.type, login |-> base.login, ticket |-> base.ticket,
                         stop_loss |-> Value(params.stop_loss)]
       [] ~sl /\ tp  -> [type |-> base.type, login |-> base.login, ticket |-> base.ticket,
                         take_profit |-> Value(params.take_profit)]
       [] OTHER      -> base

\* orderRequest of mt5NewOrder: its type field (order_type here) is
\* params.order_type || 'market'; price is added when params.price is truthy and
\* params.order_type !== 'market', which is also so when order_type is undefined.
NewOrderRequest(params) ==
  LET kind == IF params.order_type = None THEN "market" ELSE Value(params.order_type)
  IN IF params.price \notin {None, Some(0)} /\ params.order_type # Some("market")
     THEN [type |-> "mt5_new_order", order_type |-> kind, price |-> Value(params.price)]
     ELSE [type |-> "mt5_new_order", order_type |-> kind]

\* The object handed to the first sendRequest of an operation.
FirstFrame(kind, params) ==
  CASE kind = "getAccountInfo"        -> [type |-> "balance"]
    [] kind = "getOpenPositions"      -> [type |-> "portfolio"]
    [] kind = "getAvailableSymbols"   -> [type |-> "active_symbols"]
    [] kind = "getSymbolPrice"        -> [type |-> "ticks"]
    [] kind = "buyContract"           -> [type |-> "proposal", amount |-> params.amount]
    [] kind = "sellContract"          -> [type |-> "sell"]
    [] kind = "getMT5Accounts"        -> [type |-> "mt5_login_list"]
    [] kind = "getMT5AccountInfo"     -> [type |-> "mt5_get_settings"]
    [] kind = "getMT5Symbols"         -> [type |-> "trading_servers"]
    [] kind = "mt5NewOrder"           -> NewOrderRequest(params)
    [] kind = "mt5ClosePosition"      -> [type |-> "mt5_close_position"]
    [] kind = "getMT5OpenPositions"   -> [type |-> "mt5_open_positions"]
    [] kind = "mt5ModifyPosition"     -> ModifyRequest(params)
    [] kind = "getMT5TradeHistory"    -> [type |-> "mt5_deal_history"]
    [] kind = "getTransactionHistory" -> [type |-> "statement"]
    [] kind = "getProfitTable"        -> [type |-> "profit_table"]

\* The object handed to the second sendRequest of a two-request operation.
SecondFrame(kind) ==
  IF kind = "getAccountInfo" THEN [type |-> "authorize"] ELSE [type |-> "active_symbols"]

\* What an operation hands back to its caller.
Result(shape, success, error, data) ==
  [shape |-> shape, success |-> success, error |-> error, data |-> data]
NotReturned == Result("pending", FALSE, "", "")

\* A mutation of OpCatch: the trade operations report their fallback text instead
\* of the message of the error they caught.
OpCatchFallbackText(kind, message) ==
  CASE kind \in NullOps  -> Result("null", FALSE, "", "")
    [] kind \in ListOps  -> Result("list", FALSE, "", "")
    [] kind \in TradeOps -> Result("trade", FALSE, "Unknown trade error", "")

\* A mutation of OpCatch: the catch block rethrows instead of returning a value.
OpCatchRethrows(kind, message) == Result("exception", FALSE, message, "")

\* The catch block of an operation: error is always an Error instance here, so
\* the trade operations report error.message.
OpCatch(kind, message) ==
  CASE kind \in NullOps  -> Result("null", FALSE, "", "")
    [] kind \in ListOps  -> Result("list", FALSE, "", "")
    [] kind \in TradeOps -> Result("trade", FALSE, message, "")

\* The body of a tick reply whose tick.quote is q, and the quote of such a body.
TickBody(q) == IF q = 0 THEN "quote 0" ELSE "quote 943"
QuoteOf(body) == CHOOSE q \in Quotes : TickBody(q) = body

\* getSymbolPrice after its reply: response.tick?.quote || null, so a reply
\* without tick and a quote that is falsy both give null.
SymbolPrice(value) ==
  IF value.body \in {TickBody(q) : q \in Quotes} /\ QuoteOf(value.body) # 0
  THEN Result("value", TRUE, "", value.body)
  ELSE Result("null", FALSE, "", "")

\* The value returned after the last reply resolved.
OpSuccess(kind, value) ==
  CASE kind = "getSymbolPrice" -> SymbolPrice(value)
    [] kind \in NullOps  -> Result("value", TRUE, "", value.body)
    [] kind \in ListOps  -> Result("list", TRUE, "", value.body)
    [] kind \in TradeOps -> Result("trade", TRUE, "", value.body)

-----------------------------------------------------------------------------
(* The session manager.  Every operator below maps a State record to the   *)
(* State record the code leaves behind.                                    *)

RECURSIVE SendRequest(_, _, _), Executor(_, _), Throw(_, _, _), Settle(_, _, _, _),
          Resume(_, _), OpResume(_, _, _), OnOpenResume(_, _, _)

NewSocket(by) ==
  [readyState |-> "CONNECTING", closeCalled |-> FALSE, promise |-> "pending",
   awaiter |-> 0, by |-> by]
NewCall(owner, frame) ==
  [owner |-> owner, frame |-> frame, state |-> "connecting", req_id |-> 0,
   sock |-> 0, wrote |-> "", settles |-> 0, value |-> NoValue]
NewOp(kind, params) ==
  [kind |-> kind, params |-> params, pc |-> 1, result |-> NotReturned]

\* getNextRequestId
GetNextRequestId(s) == s.requestId + 1

\* connect(): a new WebSocket replaces this.ws; the promise stays pending until
\* the onopen handler of that socket settles it.  by names who called connect().
Connect(s, by) ==
  [s EXCEPT !.sockets = Append(@, NewSocket(by)), !.ws = Len(s.sockets) + 1]

\* A mutation of AttemptReconnect: the budget test admits one attempt too many.
AttemptReconnectOffByOne(s) ==
  IF s.reconnectAttempts <= maxReconnectAttempts
  THEN [s EXCEPT !.reconnectAttempts = @ + 1,
                 !.timers = Arm(@, Timer("reconnect", baseDelay * (s.reconnectAttempts + 1)))]
  ELSE s

\* attemptReconnect()
AttemptReconnect(s) ==
  IF s.reconnectAttempts < maxReconnectAttempts
  THEN [s EXCEPT !.reconnectAttempts = @ + 1,
                 !.timers = Arm(@, Timer("reconnect", baseDelay * (s.reconnectAttempts + 1)))]
  ELSE s

\* An operation hands its value back to the caller.
Return(s, o, result) == [s EXCEPT !.ops[o].pc = 0, !.ops[o].result = result]

\* resolve(value) / reject(error) of the promise of sendRequest call r, and the
\* continuation of whoever awaits it.  Settling a settled promise does nothing.
Settle(s, r, how, value) ==
  IF s.calls[r].state \in {"resolved", "rejected"}
  THEN [s EXCEPT !.calls[r].settles = @ + 1]
  ELSE Resume([s EXCEPT !.calls[r].state = how, !.calls[r].value = value,
                        !.calls[r].settles = @ + 1], r)

\* An exception thrown inside sendRequest rejects its promise.
Throw(s, r, message) == Settle(s, r, "rejected", ErrorValue(message))

\* The promise executor of sendRequest: the id is assigned and the record is
\* stored before send; send throws on a null or still connecting socket, and then
\* no timer is armed.  send on a closing or closed socket discards the frame.
Executor(s, r) ==
  LET reqId == GetNextRequestId(s)
      s1 == [s EXCEPT !.requestId = reqId,
                      !.calls[r].req_id = reqId,
                      !.pendingRequests = MapSet(@, reqId, r)]
  IN IF s1.ws = 0 THEN Throw(s1, r, "TypeError")
     ELSE IF s1.sockets[s1.ws].readyState = "CONNECTING" THEN Throw(s1, r, "InvalidStateError")
     ELSE [s1 EXCEPT !.calls[r].state = "pending",
                     !.calls[r].sock = s1.ws,
                     !.calls[r].wrote = s1.sockets[s1.ws].readyState,
                     !.timers = Arm(@, Timer("timeout", reqId))]

\* sendRequest(request) up to its first suspension.
SendRequest(s, owner, frame) ==
  LET r == Len(s.calls) + 1
      s1 == [s EXCEPT !.calls = Append(@, NewCall(owner, frame))]
  IN IF s1.ws = 0 \/ s1.sockets[s1.ws].readyState # "OPEN"
     THEN LET s2 == Connect(s1, "sendRequest") IN [s2 EXCEPT !.sockets[s2.ws].awaiter = r]
     ELSE Executor(s1, r)

\* authorize()
Authorize(s, t) == SendRequest(s, [type |-> "connect", id |-> t], [type |-> "authorize"])

\* A mutation of BuyAfterProposal: the id is read from the reply itself instead
\* of from its proposal, which yields undefined.
BuyAfterProposalWrongField(s, o, value) ==
  IF value.error # ""
  THEN Return(s, o, Result("trade", FALSE, value.error, ""))
  ELSE IF value.body = "absent"
  THEN Return(s, o, OpCatch("buyContract", "TypeError"))
  ELSE SendRequest([s EXCEPT !.ops[o].pc = 2], [type |-> "op", id |-> o],
                   [type |-> "buy", buy |-> "undefined",
                    price |-> s.ops[o].params.amount])

\* buyContract after the proposal resolved: the buy request, or the TypeError of
\* reading .id of a missing proposal (caught by the catch block).
BuyAfterProposal(s, o, value) ==
  IF value.error # ""
  THEN Return(s, o, Result("trade", FALSE, value.error, ""))
  ELSE IF value.body = "absent"
  THEN Return(s, o, OpCatch("buyContract", "TypeError"))
  ELSE SendRequest([s EXCEPT !.ops[o].pc = 2], [type |-> "op", id |-> o],
                   [type |-> "buy",
                    buy |-> IF value.body = "noid" THEN "undefined" ELSE value.body,
                    price |-> s.ops[o].params.amount])

\* The continuation of typed operation o after its awaited sendRequest r settled:
\* a rejection lands in the catch block, a reply leads to the next request or to
\* the returned value.
OpResume(s, o, r) ==
  LET op == s.ops[o]
      c == s.calls[r]
  IN IF c.state = "rejected" THEN Return(s, o, OpCatch(op.kind, c.value.error))
     ELSE IF op.kind = "buyContract" /\ op.pc = 1 THEN BuyAfterProposal(s, o, c.value)
     ELSE IF op.kind \in TwoRequestOps /\ op.pc = 1
     THEN SendRequest([s EXCEPT !.ops[o].pc = 2], [type |-> "op", id |-> o],
                      SecondFrame(op.kind))
     ELSE Return(s, o, OpSuccess(op.kind, c.value))

\* A mutation of OnOpenResume: the sendRequest that awaits connect() goes on to
\* send whether connect() resolved or rejected.
OnOpenResumeSendsAnyway(s, t, r) ==
  LET c == s.calls[r]
      a == s.sockets[t].awaiter
      s1 == [s EXCEPT !.sockets[t].promise = c.state]
  IN IF a = 0 THEN s1 ELSE Executor(s1, a)

\* The continuation of the onopen handler of socket t after its authorize call r
\* settled: resolve(true) or reject(error) of the connect() promise, and then the
\* continuation of the sendRequest that awaits that promise, if one does.
OnOpenResume(s, t, r) ==
  LET c == s.calls[r]
      a == s.sockets[t].awaiter
      s1 == [s EXCEPT !.sockets[t].promise = c.state]
  IN IF a = 0 THEN s1
     ELSE IF c.state = "resolved" THEN Executor(s1, a)
     ELSE Throw(s1, a, c.value.error)

\* The continuation of whoever awaits sendRequest call r.
Resume(s, r) ==
  LET owner == s.calls[r].owner
  IN IF owner.type = "connect" THEN OnOpenResume(s, owner.id, r)
     ELSE OpResume(s, owner.id, r)

\* A mutation of OnOpen: the attempt counter is not reset.
OnOpenKeepsAttempts(s, t) == Authorize([s EXCEPT !.isConnected = TRUE], t)

\* ws.onopen
OnOpen(s, t) == Authorize([s EXCEPT !.isConnected = TRUE, !.reconnectAttempts = 0], t)

\* A log of events: their number and the last of them.
NoLog == [count |-> 0, last |-> [req_id |-> 0, error |-> "", body |-> ""]]
Logged(log, data) == [count |-> log.count + 1, last |-> data]

\* A mutation of Correlate: the record is not deleted before it is settled.
CorrelateKeepsRecord(s, data) ==
  IF data.req_id # 0 /\ data.req_id \in DOMAIN s.pendingRequests
  THEN LET r == s.pendingRequests[data.req_id]
       IN IF data.error # ""
          THEN Settle(s, r, "rejected", ErrorValue(data.error))
          ELSE Settle(s, r, "resolved", [error |-> "", body |-> data.body])
  ELSE s

\* The part of ws.onmessage that handles pending request responses.
Correlate(s, data) ==
  IF data.req_id # 0 /\ data.req_id \in DOMAIN s.pendingRequests
  THEN LET r == s.pendingRequests[data.req_id]
           s1 == [s EXCEPT !.pendingRequests = MapDelete(@, data.req_id)]
       IN IF data.error # ""
          THEN Settle(s1, r, "rejected", ErrorValue(data.error))
          ELSE Settle(s1, r, "resolved", [error |-> "", body |-> data.body])
  ELSE s

\* The part of ws.onmessage that notifies all message handlers.  Handlers only
\* record what they are called with, so running them after the continuations of
\* Correlate leaves the same state as running them before.
Notify(s, data) ==
  [s EXCEPT !.delivered = [h \in DOMAIN @ |->
                             IF h \in s.messageHandlers THEN Logged(@[h], data) ELSE @[h]]]

\* A mutation of OnMessage: a message claimed by a pending request is not passed
\* on to the handlers.
OnMessageClaimedNotForwarded(s, data) ==
  IF data.req_id # 0 /\ data.req_id \in DOMAIN s.pendingRequests
  THEN Correlate(s, data)
  ELSE Notify(s, data)

\* ws.onmessage
OnMessage(s, data) == Notify(Correlate(s, data), data)

\* A mutation of OnError: the error handler schedules a reconnection as the
\* close handler does.
OnErrorReconnects(s) == AttemptReconnect([s EXCEPT !.isConnected = FALSE])

\* ws.onerror
OnError(s) == [s EXCEPT !.isConnected = FALSE]

\* ws.onclose
OnClose(s) == AttemptReconnect([s EXCEPT !.isConnected = FALSE])

\* The sendRequest call whose executor assigned reqId (its closure holds reject).
CallOf(s, reqId) == CHOOSE r \in 1..Len(s.calls) : s.calls[r].req_id = reqId

\* A mutation of OnTimeout: reject is called without looking the record up.
OnTimeoutUnguarded(s, reqId) ==
  Settle([s EXCEPT !.pendingRequests = MapDelete(@, reqId)],
         CallOf(s, reqId), "rejected", ErrorValue("Request timeout"))

\* A mutation of OnTimeout: the rejection carries another error.
OnTimeoutOtherError(s, reqId) ==
  IF reqId \in DOMAIN s.pendingRequests
  THEN Settle([s EXCEPT !.pendingRequests = MapDelete(@, reqId)],
              CallOf(s, reqId), "rejected", ErrorValue("Unknown error"))
  ELSE s

\* The timeout callback armed by sendRequest for reqId.
OnTimeout(s, reqId) ==
  IF reqId \in DOMAIN s.pendingRequests
  THEN Settle([s EXCEPT !.pendingRequests = MapDelete(@, reqId)],
              CallOf(s, reqId), "rejected", ErrorValue("Request timeout"))
  ELSE s

\* WebSocket.close(): a connecting or open socket starts closing.
CloseSocket(socket) ==
  IF socket.readyState \in {"CONNECTING", "OPEN"}
  THEN [socket EXCEPT !.readyState = "CLOSING", !.closeCalled = TRUE]
  ELSE socket

\* A mutation of Disconnect: the id counter starts over with the map.
DisconnectResetsRequestId(s) ==
  LET s1 == IF s.ws # 0
            THEN [s EXCEPT !.sockets[s.ws] = CloseSocket(@), !.ws = 0]
            ELSE s
  IN [s1 EXCEPT !.isConnected = FALSE, !.pendingRequests = EmptyMap, !.requestId = 0]

\* disconnect()
Disconnect(s) ==
  LET s1 == IF s.ws # 0
            THEN [s EXCEPT !.sockets[s.ws] = CloseSocket(@), !.ws = 0]
            ELSE s
  IN [s1 EXCEPT !.isConnected = FALSE, !.pendingRequests = EmptyMap]

-----------------------------------------------------------------------------
(* The gateway: what a socket may dispatch *)

\* The bodies a reply to a frame of the given type may carry: a proposal reply
\* has a proposal with an id, a proposal without id, or no proposal at all; a
\* tick reply has a tick with a quote, or no tick.
BodiesFor(type) ==
  CASE type = "proposal" -> ProposalIds \cup {"noid", "absent"}
    [] type = "ticks"    -> {TickBody(q) : q \in Quotes} \cup {"data"}
    [] OTHER             -> {"data"}

Message(reqId, error, body) == [req_id |-> reqId, error |-> error, body |-> body]

\* Replies to the frames that reached the gateway through socket t (a reply may
\* be repeated), and unsolicited pushes without req_id.
MessagesOn(t) ==
  UNION {{Message(calls[r].req_id, "", b) : b \in BodiesFor(calls[r].frame.type)}
           \cup {Message(calls[r].req_id, e, "") : e \in GatewayErrors}
         : r \in {x \in 1..Len(calls) : calls[x].sock = t /\ calls[x].wrote = "OPEN"}}
  \cup {Message(0, "", "data")}

-----------------------------------------------------------------------------
(* Actions: one per task of the event loop *)

Init ==
  /\ ws = 0
  /\ requestId = 0
  /\ pendingRequests = EmptyMap
  /\ messageHandlers = {}
  /\ reconnectAttempts = 0
  /\ isConnected = FALSE
  /\ sockets = <<>>
  /\ calls = <<>>
  /\ ops = <<>>
  /\ timers = EmptyBag
  /\ inbound = NoLog
  /\ delivered = [h \in Handlers |-> NoLog]
  /\ toolCalls = <<>>
  /\ derivServiceInstance = 0
  /\ apiTokenEnv = None
  /\ instances = <<>>
  /\ factoryReturns = <<>>

\* The step to state s, provided it creates no socket beyond the bound.
Step(s, maxSockets) == Len(s.sockets) <= maxSockets /\ Commit(s)

\* A caller invokes connect(), at most maxCalls times.
CallConnect(maxCalls, maxSockets) ==
  /\ Cardinality({t \in 1..Len(sockets) : sockets[t].by = "caller"}) < maxCalls
  /\ Step(Connect(State, "caller"), maxSockets)

\* A caller invokes disconnect().
CallDisconnect == Commit(Disconnect(State))

\* A caller invokes a typed operation.
CallOp(kind, params, maxOps, maxSockets) ==
  /\ Len(ops) < maxOps
  /\ Step(SendRequest([State EXCEPT !.ops = Append(@, NewOp(kind, params))],
                      [type |-> "op", id |-> Len(ops) + 1], FirstFrame(kind, params)),
          maxSockets)

\* A caller subscribes through onMessage(handler).
Subscribe(h) ==
  /\ h \notin messageHandlers
  /\ Commit([State EXCEPT !.messageHandlers = @ \cup {h}])

\* A caller invokes the unsubscribe function onMessage returned.
Unsubscribe(h) ==
  /\ h \in messageHandlers
  /\ Commit([State EXCEPT !.messageHandlers = @ \ {h}])

\* Socket t opens.
SocketOpen(t, maxSockets) ==
  /\ sockets[t].readyState = "CONNECTING"
  /\ Step(OnOpen([State EXCEPT !.sockets[t].readyState = "OPEN"], t), maxSockets)

\* Socket t reports an error; its close event follows.
SocketError(t) ==
  /\ sockets[t].readyState \in {"CONNECTING", "OPEN"}
  /\ Commit(OnError([State EXCEPT !.sockets[t].readyState = "CLOSING"]))

\* The close event of socket t.
SocketClose(t) ==
  /\ sockets[t].readyState \in {"CONNECTING", "OPEN", "CLOSING"}
  /\ Commit(OnClose([State EXCEPT !.sockets[t].readyState = "CLOSED"]))

\* Open socket t dispatches a message event.
SocketMessage(t, data, maxMessages, maxSockets) ==
  /\ sockets[t].readyState = "OPEN"
  /\ inbound.count < maxMessages
  /\ Step(OnMessage([State EXCEPT !.inbound = Logged(@, data)], data), maxSockets)

\* The reconnect timer scheduled by attemptReconnect fires: connect().
ReconnectTimer(timer, maxSockets) ==
  /\ timer.type = "reconnect"
  /\ Step(Connect([State EXCEPT !.timers = Disarm(@, timer)], "timer"), maxSockets)

\* The timeout of a request fires.
RequestTimeout(timer) ==
  /\ timer.type = "timeout"
  /\ Commit(OnTimeout([State EXCEPT !.timers = Disarm(@, timer)], timer.arg))

-----------------------------------------------------------------------------
(* The tool-call dispatcher of App.tsx, MT5 cases: arguments are coerced and *)
(* checked before the session manager held by derivServiceRef is called.     *)

MT5Tools == {"mt5_place_order", "mt5_close_position", "mt5_get_open_positions",
             "mt5_modify_position", "mt5_get_symbols"}

\* The args objects a tool call may carry: any argument may be absent.
ToolArgs(tool) ==
  CASE tool = "mt5_place_order" ->
         [login : Optional(Logins), symbol : Optional(Symbols)]
    [] tool \in {"mt5_close_position"} ->
         [login : Optional(Logins), ticket : Optional(Tickets)]
    [] tool = "mt5_modify_position" ->
         [login : Optional(Logins), ticket : Optional(Tickets),
          stop_loss : Optional(StopLevels), take_profit : Optional(StopLevels)]
    [] OTHER -> [login : Optional(Logins)]

\* String(x || '')
StringOrEmpty(opt) == IF opt = None \/ opt = Some("") THEN "" ELSE Value(opt)
\* Number(x || 0)
NumberOrZero(opt) == IF opt = None \/ opt = Some(0) THEN 0 ELSE Value(opt)
\* x ? Number(x) : undefined
NumberIfTruthy(opt) == IF opt = None \/ opt = Some(0) THEN None ELSE opt

\* The typed operation a tool forwards to, and the params it passes.
ToolOp(tool) ==
  CASE tool = "mt5_place_order"        -> "mt5NewOrder"
    [] tool = "mt5_close_position"     -> "mt5ClosePosition"
    [] tool = "mt5_get_open_positions" -> "getMT5OpenPositions"
    [] tool = "mt5_modify_position"    -> "mt5ModifyPosition"
    [] tool = "mt5_get_symbols"        -> "getMT5Symbols"
ToolParams(tool, args) ==
  IF tool = "mt5_modify_position"
  THEN [login |-> StringOrEmpty(args.login), ticket |-> NumberOrZero(args.ticket),
        stop_loss |-> NumberIfTruthy(args.stop_loss),
        take_profit |-> NumberIfTruthy(args.take_profit)]
  ELSE IF tool = "mt5_place_order"
  THEN [order_type |-> None, price |-> None]
  ELSE [amount |-> 0]

\* A mutation of Missing: only the login is checked.
MissingLoginOnly(tool, args) ==
  IF StringOrEmpty(args.login) = "" THEN "MT5 login required." ELSE ""

\* The message of the dispatcher's argument check, "" when the check passes.
Missing(tool, args) ==
  CASE tool = "mt5_place_order" ->
         IF StringOrEmpty(args.login) = ""
         THEN "MT5 login required. Please call get_mt5_accounts first to get the login ID."
         ELSE IF StringOrEmpty(args.symbol) = "" THEN "Symbol is required for MT5 order."
         ELSE ""
    [] tool = "mt5_close_position" ->
         IF StringOrEmpty(args.login) = "" \/ NumberOrZero(args.ticket) = 0
         THEN "Both login and ticket are required to close a position." ELSE ""
    [] tool = "mt5_get_open_positions" ->
         IF StringOrEmpty(args.login) = ""
         THEN "MT5 login required. Please call get_mt5_accounts first." ELSE ""
    [] tool = "mt5_modify_position" ->
         IF StringOrEmpty(args.login) = "" \/ NumberOrZero(args.ticket) = 0
         THEN "Both login and ticket are required to modify a position." ELSE ""
    [] tool = "mt5_get_symbols" ->
         IF StringOrEmpty(args.login) = "" THEN "MT5 login required." ELSE ""

ToolCall(tool, args, op, result) ==
  [tool |-> tool, args |-> args, op |-> op, result |-> result]

\* The dispatcher handles a tool call: result = {error} when an argument is
\* missing, otherwise the typed operation is called and awaited.
Dispatch(tool, args, maxCalls, maxSockets) ==
  /\ Len(toolCalls) < maxCalls
  /\ IF Missing(tool, args) # ""
     THEN Commit([State EXCEPT
                    !.toolCalls = Append(@, ToolCall(tool, args, 0, Missing(tool, args)))])
     ELSE Step(SendRequest(
                 [State EXCEPT
                    !.ops = Append(@, NewOp(ToolOp(tool), ToolParams(tool, args))),
                    !.toolCalls = Append(@, ToolCall(tool, args, Len(ops) + 1, ""))],
                 [type |-> "op", id |-> Len(ops) + 1],
                 FirstFrame(ToolOp(tool), ToolParams(tool, args))),
               maxSockets)

-----------------------------------------------------------------------------
(* SpecDispatch: MT5 tool calls on a session.                                *)

NextDispatch ==
  \/ \E tool \in MT5Tools : \E args \in ToolArgs(tool) :
       Dispatch(tool, args, MaxToolCalls, MaxSockets)
  \/ \E t \in 1..Len(sockets) : SocketOpen(t, MaxSockets)
  \/ \E t \in 1..Len(sockets) : \E data \in MessagesOn(t) :
       SocketMessage(t, data, MaxDispatchMessages, MaxSockets)
  \/ \E timer \in BagToSet(timers) : RequestTimeout(timer)

SpecDispatch == Init /\ [][NextDispatch]_vars

-----------------------------------------------------------------------------
(* The factory, and the effect of App.tsx that calls it when the App mounts. *)

\* A mutation of CreateDerivTradingService: an existing instance is returned
\* before the token is looked at.
CreateReturnsCachedFirst(s) ==
  IF s.derivServiceInstance # 0
  THEN [s EXCEPT !.factoryReturns =
                   Append(@, [token |-> s.apiTokenEnv, value |-> s.derivServiceInstance])]
  ELSE IF s.apiTokenEnv = None \/ s.apiTokenEnv = Some("")
  THEN [s EXCEPT !.factoryReturns = Append(@, [token |-> s.apiTokenEnv, value |-> 0])]
  ELSE [s EXCEPT !.instances = Append(@, Value(s.apiTokenEnv)),
                 !.derivServiceInstance = Len(s.instances) + 1,
                 !.factoryReturns =
                   Append(@, [token |-> s.apiTokenEnv, value |-> Len(s.instances) + 1])]

\* createDerivTradingService(): null when the token is undefined or empty,
\* otherwise the instance, constructed on first need.
CreateDerivTradingService(s) ==
  IF s.apiTokenEnv = None \/ s.apiTokenEnv = Some("")
  THEN [s EXCEPT !.factoryReturns = Append(@, [token |-> s.apiTokenEnv, value |-> 0])]
  ELSE IF s.derivServiceInstance = 0
  THEN [s EXCEPT !.instances = Append(@, Value(s.apiTokenEnv)),
                 !.derivServiceInstance = Len(s.instances) + 1,
                 !.factoryReturns =
                   Append(@, [token |-> s.apiTokenEnv, value |-> Len(s.instances) + 1])]
  ELSE [s EXCEPT !.factoryReturns =
                   Append(@, [token |-> s.apiTokenEnv, value |-> s.derivServiceInstance])]

\* The environment variable is set, changed or removed.
SetEnv(token) ==
  /\ token # apiTokenEnv
  /\ Commit([State EXCEPT !.apiTokenEnv = token])

\* Some module calls the factory.
CallFactory ==
  /\ Len(factoryReturns) < MaxFactoryCalls
  /\ Commit(CreateDerivTradingService(State))

\* The App mounts: the factory is called and, when it returned an instance,
\* connect() is called on it.
AppMount(maxSockets) ==
  /\ Len(factoryReturns) < MaxFactoryCalls
  /\ LET s == CreateDerivTradingService(State)
     IN IF s.factoryReturns[Len(s.factoryReturns)].value # 0
        THEN Step(Connect(s, "caller"), maxSockets)
        ELSE Commit(s)

NextFactory ==
  \/ \E token \in Optional(Tokens) : SetEnv(token)
  \/ CallFactory
  \/ AppMount(MaxSockets)

SpecFactory == Init /\ [][NextFactory]_vars

-----------------------------------------------------------------------------
(* Spec: the request protocol of a session.  Operations open the connection  *)
(* themselves, replies arrive in any order and any number of times, timeouts *)
(* fire at any time.                                                         *)

CoreKinds == {"getSymbolPrice", "buyContract"}
TeardownKinds == {"getSymbolPrice"}

Next ==
  \/ \E kind \in CoreKinds : \E params \in ParamsOf(kind) :
       CallOp(kind, params, MaxOps, MaxSockets)
  \/ \E t \in 1..Len(sockets) : SocketOpen(t, MaxSockets)
  \/ \E t \in 1..Len(sockets) : \E data \in MessagesOn(t) :
       SocketMessage(t, data, MaxMessages, MaxSockets)
  \/ \E timer \in BagToSet(timers) : RequestTimeout(timer)

Spec == Init /\ [][Next]_vars

-----------------------------------------------------------------------------
(* SpecFanout: the request protocol with subscribers coming and going. *)

NextFanout ==
  \/ \E kind \in TeardownKinds : \E params \in ParamsOf(kind) :
       CallOp(kind, params, MaxOps, MaxSockets)
  \/ \E h \in Handlers : Subscribe(h)
  \/ \E h \in Handlers : Unsubscribe(h)
  \/ \E t \in 1..Len(sockets) : SocketOpen(t, MaxSockets)
  \/ \E t \in 1..Len(sockets) : \E data \in MessagesOn(t) :
       SocketMessage(t, data, MaxMessages, MaxSockets)
  \/ \E timer \in BagToSet(timers) : RequestTimeout(timer)

SpecFanout == Init /\ [][NextFanout]_vars

-----------------------------------------------------------------------------
(* SpecTeardown: a session whose caller also calls connect() and disconnect() *)
(* and whose sockets close.                                                   *)

NextTeardown ==
  \/ CallConnect(MaxConnectCalls, MaxSockets)
  \/ CallDisconnect
  \/ \E kind \in TeardownKinds : \E params \in ParamsOf(kind) :
       CallOp(kind, params, MaxTeardownOps, MaxSockets)
  \/ \E t \in 1..Len(sockets) : SocketOpen(t, MaxSockets)
  \/ \E t \in 1..Len(sockets) : SocketClose(t)
  \/ \E t \in 1..Len(sockets) : \E data \in MessagesOn(t) :
       SocketMessage(t, data, MaxTeardownMessages, MaxSockets)
  \/ \E timer \in BagToSet(timers) : ReconnectTimer(timer, MaxSockets)
  \/ \E timer \in BagToSet(timers) : RequestTimeout(timer)

SpecTeardown == Init /\ [][NextTeardown]_vars

-----------------------------------------------------------------------------
(* SpecLifecycle: the connection alone, through failures and reconnections. *)

NextLifecycle ==
  \/ CallConnect(MaxLifecycleConnects, MaxLifecycleSockets)
  \/ CallDisconnect
  \/ \E t \in 1..Len(sockets) : SocketOpen(t, MaxLifecycleSockets)
  \/ \E t \in 1..Len(sockets) : SocketError(t)
  \/ \E t \in 1..Len(sockets) : SocketClose(t)
  \/ \E timer \in BagToSet(timers) : ReconnectTimer(timer, MaxLifecycleSockets)

SpecLifecycle == Init /\ [][NextLifecycle]_vars

-----------------------------------------------------------------------------
(* SpecFaults: one operation and a subscriber on a connection whose sockets  *)
(* report errors and close, and which the reconnect timer replaces.          *)

NextFaults ==
  \/ \E kind \in TeardownKinds : \E params \in ParamsOf(kind) :
       CallOp(kind, params, MaxTeardownOps, MaxFaultSockets)
  \/ \E h \in Handlers : Subscribe(h)
  \/ \E t \in 1..Len(sockets) : SocketOpen(t, MaxFaultSockets)
  \/ \E t \in 1..Len(sockets) : SocketError(t)
  \/ \E t \in 1..Len(sockets) : SocketClose(t)
  \/ \E t \in 1..Len(sockets) : \E data \in MessagesOn(t) :
       SocketMessage(t, data, MaxFaultMessages, MaxFaultSockets)
  \/ \E timer \in BagToSet(timers) : ReconnectTimer(timer, MaxFaultSockets)
  \/ \E timer \in BagToSet(timers) : RequestTimeout(timer)

SpecFaults == Init /\ [][NextFaults]_vars

-----------------------------------------------------------------------------
(* SpecExhaustion: a connection whose sockets keep closing until the retry   *)
(* budget is used up, and an operation that is called at any moment.         *)

NextExhaustion ==
  \/ CallConnect(MaxLifecycleConnects, MaxExhaustionSockets)
  \/ \E kind \in TeardownKinds : \E params \in ParamsOf(kind) :
       CallOp(kind, params, MaxTeardownOps, MaxExhaustionSockets)
  \/ \E t \in 1..Len(sockets) : SocketOpen(t, MaxExhaustionSockets)
  \/ \E t \in 1..Len(sockets) : SocketClose(t)
  \/ \E timer \in BagToSet(timers) : ReconnectTimer(timer, MaxExhaustionSockets)

SpecExhaustion == Init /\ [][NextExhaustion]_vars

-----------------------------------------------------------------------------
(* SpecSurface: one call of any typed operation, on a connection the caller  *)
(* may replace by calling connect().                                         *)

NextSurface ==
  \/ CallConnect(MaxConnectCalls, MaxSockets)
  \/ \E kind \in OpKinds : \E params \in ParamsOf(kind) :
       CallOp(kind, params, MaxSurfaceOps, MaxSockets)
  \/ \E t \in 1..Len(sockets) : SocketOpen(t, MaxSockets)
  \/ \E t \in 1..Len(sockets) : \E data \in MessagesOn(t) :
       SocketMessage(t, data, MaxSurfaceMessages, MaxSockets)
  \/ \E timer \in BagToSet(timers) : RequestTimeout(timer)

SpecSurface == Init /\ [][NextSurface]_vars

-----------------------------------------------------------------------------
(* SpecLiveness: no disconnect(); a connecting socket opens or fails, armed  *)
(* timers fire, and the event loop delivers every event that stays possible. *)

\* Socket t fails to open: its close event comes while it is connecting.
SocketFail(t) ==
  /\ sockets[t].readyState = "CONNECTING"
  /\ Cardinality({x \in 1..Len(sockets) : sockets[x].readyState = "CLOSED"}) < MaxOpenFailures
  /\ SocketClose(t)

LivenessCall ==
  \E kind \in CoreKinds : \E params \in ParamsOf(kind) :
    CallOp(kind, params, MaxLivenessOps, MaxSockets)
LivenessOpen == \E t \in 1..Len(sockets) : SocketOpen(t, MaxSockets)
LivenessFail == \E t \in 1..Len(sockets) : SocketFail(t)
\* The gateway answers a request that is still awaited.
LivenessMessage ==
  \E t \in 1..Len(sockets) : \E data \in MessagesOn(t) :
    /\ data.req_id \in DOMAIN pendingRequests
    /\ SocketMessage(t, data, MaxMessages, MaxSockets)
LivenessReconnect == \E timer \in BagToSet(timers) : ReconnectTimer(timer, MaxSockets)
LivenessTimeout == \E timer \in BagToSet(timers) : RequestTimeout(timer)

NextLiveness ==
  \/ LivenessCall
  \/ LivenessOpen
  \/ LivenessFail
  \/ LivenessMessage
  \/ LivenessReconnect
  \/ LivenessTimeout

SpecLiveness ==
  /\ Init
  /\ [][NextLiveness]_vars
  /\ WF_vars(LivenessOpen)
  /\ WF_vars(LivenessMessage)
  /\ WF_vars(LivenessReconnect)
  /\ WF_vars(LivenessTimeout)

-----------------------------------------------------------------------------
(* Properties *)

Calls == 1..Len(calls)
Ops == 1..Len(ops)
Pending == DOMAIN pendingRequests
Settled(c) == c.state \in {"resolved", "rejected"}
\* The step dispatches a message event.
MessageStep == inbound'.count = inbound.count + 1
\* The step fires the timeout armed for reqId.
TimeoutStep(reqId) ==
  CopiesIn(Timer("timeout", reqId), timers') < CopiesIn(Timer("timeout", reqId), timers)
\* Call c was settled by message data.
SettledWith(c, data) ==
  /\ c.settles = 1
  /\ IF data.error # ""
     THEN c.state = "rejected" /\ c.value = ErrorValue(data.error)
     ELSE c.state = "resolved" /\ c.value = [error |-> "", body |-> data.body]

\* C1: a message whose req_id matches a pending record settles that record's
\* request with that message, removes the record and leaves every other pending
\* record in place and unsettled; a message that matches no record (a second
\* reply among them) settles nothing; either way every subscriber gets it.
C1_CorrelationUniqueness ==
  [][MessageStep =>
       LET data == inbound'.last
       IN /\ \A h \in messageHandlers : delivered'[h] = Logged(delivered[h], data)
          /\ IF data.req_id \in Pending
             THEN /\ SettledWith(calls'[pendingRequests[data.req_id]], data)
                  /\ data.req_id \notin DOMAIN pendingRequests'
                  /\ \A id \in Pending \ {data.req_id} :
                       /\ id \in DOMAIN pendingRequests'
                       /\ pendingRequests'[id] = pendingRequests[id]
                       /\ calls'[pendingRequests[id]] = calls[pendingRequests[id]]
             ELSE /\ pendingRequests' = pendingRequests
                  /\ calls' = calls]_vars

\* Two requests of operations are in flight, the later one was rejected by an
\* error reply, a second reply with its req_id (carrying no error) has been
\* dispatched and handed to the subscriber, and the earlier one is still pending.
C1_Witness ==
  \E r1, r2 \in Calls :
    /\ calls[r1].owner.type = "op" /\ calls[r2].owner.type = "op"
    /\ calls[r1].req_id # 0 /\ calls[r1].req_id < calls[r2].req_id
    /\ calls[r1].state = "pending" /\ calls[r1].req_id \in Pending
    /\ calls[r2].state = "rejected" /\ calls[r2].value.error \in GatewayErrors
    /\ calls[r2].settles = 1
    /\ inbound.last = Message(calls[r2].req_id, "", "data")
    /\ \E h \in messageHandlers : delivered[h].last = inbound.last

\* C2: the promise of a request is settled at most once, and whenever it has
\* been settled by a reply or by its timeout the record is out of the map.
C2_TimeoutExclusivity ==
  \A r \in Calls :
    /\ calls[r].settles <= 1
    /\ (Settled(calls[r]) /\ calls[r].wrote # "") => calls[r].req_id \notin Pending

\* One request was resolved by its reply and its timeout fired afterwards;
\* another was rejected by its timeout and its reply arrived afterwards.
C2_Witness ==
  \E r1, r2 \in Calls :
    /\ calls[r1].owner.type = "op" /\ calls[r2].owner.type = "op"
    /\ calls[r1].state = "resolved" /\ calls[r1].settles = 1
    /\ ~BagIn(Timer("timeout", calls[r1].req_id), timers)
    /\ calls[r2].state = "rejected" /\ calls[r2].value.error = "Request timeout"
    /\ calls[r2].settles = 1
    /\ inbound.last.req_id = calls[r2].req_id

\* C3: when the timeout of a written request fires while the request is still
\* unanswered and no disconnect() has dropped its record, the record is removed
\* and the promise is rejected with 'Request timeout'.
C3_Timeout ==
  [][\A r \in Calls :
       (/\ calls[r].state = "pending"
        /\ calls[r].req_id \in Pending
        /\ TimeoutStep(calls[r].req_id)) =>
         /\ calls[r].req_id \notin DOMAIN pendingRequests'
         /\ calls'[r].state = "rejected"
         /\ calls'[r].value = ErrorValue("Request timeout")
         /\ calls'[r].settles = 1]_vars

\* The request of an operation was rejected by its timeout.
C3_Witness ==
  \E r \in Calls :
    /\ calls[r].owner.type = "op"
    /\ calls[r].wrote = "OPEN"
    /\ calls[r].state = "rejected" /\ calls[r].value.error = "Request timeout"
    /\ calls[r].req_id \notin Pending

\* The sendRequest call that carries the proposal of buyContract call o.
ProposalCall(o) ==
  CHOOSE r \in Calls : calls[r].owner = [type |-> "op", id |-> o]
                        /\ calls[r].frame.type = "proposal"
\* The sendRequest calls that carry the buy of buyContract call o.
BuyCalls(o) ==
  {r \in Calls : calls[r].owner = [type |-> "op", id |-> o] /\ calls[r].frame.type = "buy"}

\* C4: whenever a request awaited by a typed operation is rejected, the
\* operation has returned its failure shape (null, the empty list, or
\* {success: false, error} with the rejection's message), and no operation ever
\* hands an exception to its caller.
C4_FailureShape ==
  \A o \in Ops :
    /\ ops[o].result.shape # "exception"
    /\ \A r \in Calls :
         (calls[r].owner = [type |-> "op", id |-> o] /\ calls[r].state = "rejected") =>
           /\ ops[o].pc = 0
           /\ ops[o].kind \in {"getAccountInfo", "getSymbolPrice", "getMT5AccountInfo"} =>
                ops[o].result = Result("null", FALSE, "", "")
           /\ ops[o].kind \in {"getOpenPositions", "getAvailableSymbols", "getMT5Accounts",
                               "getMT5Symbols", "getMT5OpenPositions", "getMT5TradeHistory",
                               "getTransactionHistory", "getProfitTable"} =>
                ops[o].result = Result("list", FALSE, "", "")
           /\ ops[o].kind \in {"buyContract", "sellContract", "mt5NewOrder",
                               "mt5ClosePosition", "mt5ModifyPosition"} =>
                ops[o].result = Result("trade", FALSE, calls[r].value.error, "")

\* A trade operation awaited connect(), connect() resolved after the caller had
\* replaced the socket, send threw on the connecting socket, and the operation
\* returned {success: false, error}.
C4_Witness ==
  \E r \in Calls :
    /\ calls[r].owner.type = "op"
    /\ calls[r].state = "rejected" /\ calls[r].value.error = "InvalidStateError"
    /\ ops[calls[r].owner.id].kind \in TradeOps
    /\ ops[calls[r].owner.id].result.shape = "trade"

\* C5: every invoked typed operation eventually returns.
C5_EventuallyReturns ==
  \A o \in 1..MaxLivenessOps :
    (Len(ops) >= o) ~> (Len(ops) >= o /\ ops[o].pc = 0)

\* C6: when the proposal reply of a buyContract call carries an error payload,
\* or no proposal id, no buy request is made for that call and the call returns
\* {success: false, error}, with the gateway's message when there is one.
C6_TwoPhaseBuy ==
  \A o \in Ops :
    ops[o].kind = "buyContract" =>
      LET p == calls[ProposalCall(o)]
      IN (\/ p.state = "rejected" /\ p.value.error \in GatewayErrors
          \/ p.state = "resolved" /\ p.value.body \notin ProposalIds) =>
           /\ BuyCalls(o) = {}
           /\ ops[o].pc = 0
           /\ ops[o].result.shape = "trade" /\ ~ops[o].result.success
           /\ p.state = "rejected" => ops[o].result.error = p.value.error

\* C7: a buy request exists only for a buyContract call whose proposal request
\* was resolved; it carries the proposal id of that reply as buy and the call's
\* amount as price, and its req_id is later than the proposal's.
C7_BuyAfterProposal ==
  \A r \in Calls :
    calls[r].frame.type = "buy" =>
      LET o == calls[r].owner.id
          p == calls[ProposalCall(o)]
      IN /\ p.state = "resolved"
         /\ calls[r].frame.buy =
              (IF p.value.body \in ProposalIds THEN p.value.body ELSE "undefined")
         /\ calls[r].frame.price = ops[o].params.amount
         /\ calls[r].req_id # 0 => p.req_id < calls[r].req_id

\* A buy frame carrying a proposal id was written while the proposal of another
\* buyContract call, with another amount, was still in flight.
C7_Witness ==
  \E r, r2 \in Calls :
    /\ calls[r].frame.type = "buy" /\ calls[r].wrote = "OPEN"
    /\ calls[r].frame.buy \in ProposalIds
    /\ calls[r2].frame.type = "proposal" /\ calls[r2].state = "pending"
    /\ calls[r2].owner # calls[r].owner
    /\ calls[r2].frame.amount # calls[r].frame.price

\* C8: the close event of a socket that disconnect() closed schedules no
\* reconnection.
C8_NoReconnectAfterDisconnect ==
  [][\A t \in 1..Len(sockets) :
       (/\ sockets[t].closeCalled
        /\ sockets[t].readyState # "CLOSED"
        /\ sockets'[t].readyState = "CLOSED") =>
         /\ timers' = timers
         /\ reconnectAttempts' = reconnectAttempts]_vars

\* A request is dropped when it is unsettled and its record is gone.
Dropped(r) == calls[r].state = "pending" /\ calls[r].req_id \notin Pending

\* C9: disconnect() on a live handle empties the map and settles nothing, and a
\* dropped request stays as it is ever after.
C9_DisconnectDrops ==
  [][/\ (ws # 0 /\ ws' = 0) => (pendingRequests' = EmptyMap /\ calls' = calls)
     /\ \A r \in Calls :
          Dropped(r) => (calls'[r] = calls[r] /\ calls[r].req_id \notin DOMAIN pendingRequests')
    ]_vars

\* The request of an operation was dropped; afterwards its reply was dispatched
\* and its timeout fired.
C9_Witness ==
  \E r \in Calls :
    /\ calls[r].owner.type = "op"
    /\ Dropped(r)
    /\ calls[r].settles = 0
    /\ inbound.last.req_id = calls[r].req_id
    /\ ~BagIn(Timer("timeout", calls[r].req_id), timers)

\* The reconnect timers armed by the step.
NewReconnectTimers ==
  {timer \in BagToSet(timers') :
     timer.type = "reconnect" /\ CopiesIn(timer, timers') > CopiesIn(timer, timers)}
\* The step dispatches the close event of a socket.
CloseStep ==
  \E t \in 1..Len(sockets) :
    sockets[t].readyState # "CLOSED" /\ sockets'[t].readyState = "CLOSED"
\* The step dispatches the open event of a socket.
OpenStep ==
  \E t \in 1..Len(sockets) :
    sockets[t].readyState = "CONNECTING" /\ sockets'[t].readyState = "OPEN"

\* C10: reconnectAttempts stays within 0..5 and returns to 0 only when a socket
\* opens; a close event with k - 1 < 5 attempts counted arms exactly one timer,
\* of k * 3000 ms, and counts k; a close event with 5 attempts counted arms none;
\* nothing else arms a reconnect timer.
C10_Backoff ==
  [][/\ reconnectAttempts' \in 0..5
     /\ (CloseStep /\ reconnectAttempts < 5) =>
          /\ reconnectAttempts' = reconnectAttempts + 1
          /\ timers' = Arm(timers, Timer("reconnect", 3000 * (reconnectAttempts + 1)))
     /\ (CloseStep /\ reconnectAttempts >= 5) =>
          /\ reconnectAttempts' = reconnectAttempts
          /\ timers' = timers
     /\ ~CloseStep =>
          /\ NewReconnectTimers = {}
          /\ \/ reconnectAttempts' = reconnectAttempts
             \/ reconnectAttempts' = 0 /\ OpenStep
    ]_vars

\* Five consecutive close events armed timers of 3000 up to 15000 ms, the
\* socket of the fifth attempt closed too, and no timer is armed.
C10_Witness ==
  /\ reconnectAttempts = 5
  /\ Len(sockets) = 6
  /\ \A t \in 1..Len(sockets) : sockets[t].readyState = "CLOSED"
  /\ \A t \in 2..Len(sockets) : sockets[t].by = "timer"
  /\ \A timer \in BagToSet(timers) : timer.type # "reconnect"

\* The sendRequest calls made by authorize() in the onopen handler of socket t.
AuthorizeCalls(t) ==
  {r \in Calls : calls[r].owner = [type |-> "connect", id |-> t]}

\* C11: the promise of the connect() call that created socket t is resolved only
\* when the authorize request written on socket t was resolved by a correlated
\* reply without error payload, and it is rejected, never resolved, once that
\* authorize request was rejected by an error reply or by its timeout.
C11_ConnectAfterAuthorize ==
  \A t \in 1..Len(sockets) :
    /\ sockets[t].promise = "resolved" =>
         \E r \in AuthorizeCalls(t) :
           /\ calls[r].frame.type = "authorize"
           /\ calls[r].sock = t /\ calls[r].wrote = "OPEN"
           /\ calls[r].state = "resolved" /\ calls[r].value.error = ""
    /\ (\E r \in AuthorizeCalls(t) : calls[r].state = "rejected") =>
         sockets[t].promise = "rejected"

\* C12: the promise of a connect() call whose socket closed without ever having
\* opened is eventually rejected.
C12_ConnectRejectsOnOpenFailure ==
  \A t \in 1..MaxSockets :
    (/\ Len(sockets) >= t
     /\ sockets[t].readyState = "CLOSED"
     /\ AuthorizeCalls(t) = {})
      ~> (Len(sockets) >= t /\ sockets[t].promise = "rejected")

\* The sockets that are connecting or open.
LiveSockets ==
  {t \in 1..Len(sockets) : sockets[t].readyState \in {"CONNECTING", "OPEN"}}

\* C13: at most one socket created by the manager is connecting or open.
C13_SingleLiveTransport == Cardinality(LiveSockets) <= 1

C15_ValidationBeforeSend ==
  [][Len(toolCalls') = Len(toolCalls) + 1 =>
       LET c == toolCalls'[Len(toolCalls')]
       IN (\/ c.args.login = None
           \/ c.tool \in {"mt5_modify_position", "mt5_close_position"} /\ c.args.ticket = None) =>
            /\ c.op = 0
            /\ c.result # ""
            /\ UNCHANGED <<ws, requestId, pendingRequests, sockets, calls, ops, timers>>
    ]_vars

\* After a complete modify had been forwarded and written, a modify with a login
\* and no ticket was refused: still one operation and no frame of a second one.
C15_Witness ==
  /\ Len(toolCalls) = 2 /\ Len(ops) = 1
  /\ toolCalls[1].tool = "mt5_modify_position" /\ toolCalls[1].op = 1
  /\ \E r \in Calls : calls[r].frame.type = "mt5_modify_position" /\ calls[r].wrote = "OPEN"
  /\ toolCalls[2].tool = "mt5_modify_position"
  /\ toolCalls[2].args.login # None /\ toolCalls[2].args.ticket = None
  /\ toolCalls[2].op = 0
  /\ toolCalls[2].result = "Both login and ticket are required to modify a position."
  /\ Cardinality({r \in Calls : calls[r].frame.type = "mt5_modify_position"}) = 1

\* C16: the frame of mt5ModifyPosition carries stop_loss exactly when the params
\* give one (0 included) and with that value, likewise take_profit, and besides
\* them only the request marker, login and ticket.
C16_PartialModify ==
  \A r \in Calls :
    calls[r].frame.type = "mt5_modify_position" =>
      LET frame == calls[r].frame
          params == ops[calls[r].owner.id].params
      IN /\ DOMAIN frame \subseteq {"type", "login", "ticket", "stop_loss", "take_profit"}
         /\ frame.login = params.login /\ frame.ticket = params.ticket
         /\ "stop_loss" \in DOMAIN frame <=> params.stop_loss # None
         /\ "stop_loss" \in DOMAIN frame => params.stop_loss = Some(frame.stop_loss)
         /\ "take_profit" \in DOMAIN frame <=> params.take_profit # None
         /\ "take_profit" \in DOMAIN frame => params.take_profit = Some(frame.take_profit)

\* A modify with only take_profit given, as 0, was written: the frame has
\* take_profit 0 and no stop_loss key.
C16_Witness ==
  \E r \in Calls :
    /\ calls[r].frame.type = "mt5_modify_position" /\ calls[r].wrote = "OPEN"
    /\ ops[calls[r].owner.id].params.stop_loss = None
    /\ ops[calls[r].owner.id].params.take_profit = Some(0)
    /\ DOMAIN calls[r].frame = {"type", "login", "ticket", "take_profit"}
    /\ calls[r].frame.take_profit = 0

\* C17: a reply with an error payload whose req_id has a pending record rejects
\* the request of that record with the gateway's message and leaves every other
\* unsettled request as it was; when a trade operation awaits the rejected
\* request, the operation returns {success: false, error: that message}.
C17_ProtocolError ==
  [][(MessageStep /\ inbound'.last.error # "" /\ inbound'.last.req_id \in Pending) =>
       LET data == inbound'.last
           r == pendingRequests[data.req_id]
           owner == calls[r].owner
       IN /\ calls'[r].state = "rejected"
          /\ calls'[r].value = ErrorValue(data.error)
          /\ calls'[r].settles = 1
          /\ \A x \in Pending \ {data.req_id} :
               /\ x \in DOMAIN pendingRequests'
               /\ calls'[pendingRequests[x]] = calls[pendingRequests[x]]
          /\ (owner.type = "op" /\
              ops[owner.id].kind \in {"buyContract", "sellContract", "mt5NewOrder",
                                      "mt5ClosePosition", "mt5ModifyPosition"}) =>
               /\ ops'[owner.id].pc = 0
               /\ ops'[owner.id].result = Result("trade", FALSE, data.error, "")
    ]_vars

\* The buy request of a buyContract call, sent after its proposal was answered,
\* was rejected by an error reply while another request was pending, and the
\* call returned the gateway's message.
C17_Witness ==
  \E r \in Calls : \E x \in Pending :
    /\ calls[r].frame.type = "buy"
    /\ calls[r].state = "rejected" /\ calls[r].value.error \in GatewayErrors
    /\ inbound.last = Message(calls[r].req_id, calls[r].value.error, "")
    /\ ops[calls[r].owner.id].result = Result("trade", FALSE, calls[r].value.error, "")
    /\ calls[pendingRequests[x]].state = "pending"

\* C18: a call of the factory that finds no token returns null, whatever was
\* returned before; a call that finds a token returns the one instance; at most
\* one DerivTradingService is ever constructed.
C18_Factory ==
  /\ Len(instances) <= 1
  /\ \A k \in 1..Len(factoryReturns) :
       IF factoryReturns[k].token \in {None, Some("")}
       THEN factoryReturns[k].value = 0
       ELSE factoryReturns[k].value = 1

\* The factory returned the instance, then null after the token had been
\* removed, then the same instance under another token.
C18_Witness ==
  \E i, j, k \in 1..Len(factoryReturns) :
    /\ i < j /\ j < k
    /\ factoryReturns[i].token = Some("tok1") /\ factoryReturns[i].value = 1
    /\ factoryReturns[j].token = None /\ factoryReturns[j].value = 0
    /\ factoryReturns[k].token = Some("tok2") /\ factoryReturns[k].value = 1
    /\ instances = <<"tok1">>

\* The requests that were given an id.
Numbered == {r \in Calls : calls[r].req_id # 0}

\* C19: every id given to a request is at least 1 and greater than all ids given
\* before, whatever disconnect() and reconnections happened in between; an id,
\* once given, stays with its request and is given to no other; and a pending
\* record is only ever stored under an id given by that very step, for the
\* request that was given it.
C19_RequestIds ==
  [][/\ requestId' >= requestId
     /\ \A r \in Numbered : calls'[r].req_id = calls[r].req_id
     /\ \A r \in 1..Len(calls') :
          (calls'[r].req_id # 0 /\ r \notin Numbered) =>
            /\ calls'[r].req_id >= 1
            /\ calls'[r].req_id > requestId
            /\ \A x \in Numbered : calls'[r].req_id > calls[x].req_id
            /\ \A x \in 1..Len(calls') : calls'[x].req_id = calls'[r].req_id => x = r
     /\ \A id \in DOMAIN pendingRequests' \ Pending :
          /\ id > requestId
          /\ calls'[pendingRequests'[id]].req_id = id
    ]_vars

\* A request written before disconnect() was dropped, and after a reconnection
\* a later request was written on another socket under a greater id.
C19_Witness ==
  \E r1, r2 \in Numbered :
    /\ calls[r1].wrote = "OPEN" /\ calls[r2].wrote = "OPEN"
    /\ calls[r1].state = "pending" /\ calls[r1].req_id \notin Pending
    /\ calls[r2].sock # calls[r1].sock
    /\ sockets[calls[r2].sock].by = "timer"
    /\ calls[r1].req_id >= 1 /\ calls[r2].req_id > calls[r1].req_id
    /\ calls[r2].req_id \in Pending

\* C20: a sendRequest that finds no open socket calls connect() and awaits it:
\* while that connect() is pending the request has no id, no record and no
\* frame; it has an id only once that connect() resolved; and when that
\* connect() rejected the request is rejected without id, record or frame.
C20_ConnectBeforeSend ==
  /\ \A r \in Calls :
       calls[r].state = "connecting" =>
         \E t \in 1..Len(sockets) : sockets[t].by = "sendRequest" /\ sockets[t].awaiter = r
  /\ \A t \in 1..Len(sockets) :
       sockets[t].awaiter # 0 =>
         LET c == calls[sockets[t].awaiter]
             unsent == /\ c.req_id = 0 /\ c.wrote = "" /\ c.sock = 0
                       /\ \A id \in Pending : pendingRequests[id] # sockets[t].awaiter
         IN /\ sockets[t].by = "sendRequest"
            /\ sockets[t].promise = "pending" => (c.state = "connecting" /\ unsent)
            /\ sockets[t].promise = "rejected" => (c.state = "rejected" /\ unsent)
            /\ c.req_id # 0 => sockets[t].promise = "resolved"

\* Two operations each called connect(): the connect() of one rejected after its
\* authorize timed out and the operation sent nothing; the connect() of the
\* other resolved and its request was written afterwards.
C20_Witness ==
  \E t1, t2 \in 1..Len(sockets) :
    /\ sockets[t1].awaiter # 0 /\ sockets[t2].awaiter # 0
    /\ sockets[t1].promise = "rejected"
    /\ calls[sockets[t1].awaiter].state = "rejected"
    /\ calls[sockets[t1].awaiter].value = ErrorValue("Request timeout")
    /\ calls[sockets[t1].awaiter].req_id = 0
    /\ sockets[t2].promise = "resolved"
    /\ calls[sockets[t2].awaiter].wrote = "OPEN"
    /\ calls[sockets[t2].awaiter].req_id \in Pending

\* The step dispatches the error event of a socket: the socket leaves the
\* connecting or open state without close() having been called on it.
ErrorStep ==
  \E t \in 1..Len(sockets) :
    /\ sockets[t].readyState \in {"CONNECTING", "OPEN"}
    /\ sockets'[t].readyState = "CLOSING"
    /\ sockets'[t].closeCalled = sockets[t].closeCalled

\* C21: an error event leaves isConnected false and changes neither
\* reconnectAttempts, the handle, the pending map, the subscriber set, the armed
\* timers nor any request; a reconnect timer is armed only by a close event.
C21_ErrorEvent ==
  [][/\ ErrorStep =>
          /\ isConnected' = FALSE
          /\ UNCHANGED <<ws, requestId, pendingRequests, messageHandlers,
                         reconnectAttempts, timers, calls, ops, delivered>>
          /\ Len(sockets') = Len(sockets)
     /\ NewReconnectTimers # {} => CloseStep
    ]_vars

\* The open current socket reported an error while a request was pending and a
\* handler was subscribed: the flag is down, the record and the handler are
\* still there, no reconnection is scheduled and none was counted.
C21_Witness ==
  /\ ws # 0 /\ sockets[ws].readyState = "CLOSING" /\ ~sockets[ws].closeCalled
  /\ ~isConnected
  /\ Pending # {} /\ messageHandlers # {}
  /\ reconnectAttempts = 0
  /\ \A timer \in BagToSet(timers) : timer.type # "reconnect"

\* The retry budget is used up: five attempts counted, none scheduled, and no
\* socket connecting or open.
Exhausted ==
  /\ reconnectAttempts = 5
  /\ \A timer \in BagToSet(timers) : timer.type # "reconnect"
  /\ LiveSockets = {}

\* C22: once the budget is used up the manager is not connected and creates no
\* socket by itself; a typed operation called then creates a socket, which
\* becomes the handle; an open event sets reconnectAttempts to 0, and the close
\* event that follows counts attempt 1 of a new budget, with a 3000 ms timer.
C22_AfterExhaustion ==
  [][/\ Exhausted =>
          /\ ~isConnected
          /\ Len(sockets') > Len(sockets) =>
               sockets'[Len(sockets')].by \in {"caller", "sendRequest"}
          /\ Len(ops') > Len(ops) =>
               /\ Len(sockets') = Len(sockets) + 1
               /\ ws' = Len(sockets')
               /\ sockets'[ws'].by = "sendRequest"
               /\ sockets'[ws'].readyState = "CONNECTING"
     /\ OpenStep => reconnectAttempts' = 0
     /\ (CloseStep /\ reconnectAttempts = 0) =>
          /\ reconnectAttempts' = 1
          /\ BagIn(Timer("reconnect", 3000), timers')
    ]_vars

\* The first socket and the five sockets of the automatic attempts closed
\* without opening; then an operation created a seventh socket, it opened and
\* closed, and attempt 1 of a new budget is scheduled.
C22_Witness ==
  /\ Len(sockets) = 7
  /\ \A t \in 1..6 : sockets[t].readyState = "CLOSED" /\ AuthorizeCalls(t) = {}
  /\ \A t \in 2..6 : sockets[t].by = "timer"
  /\ sockets[7].by = "sendRequest"
  /\ AuthorizeCalls(7) # {}
  /\ sockets[7].readyState = "CLOSED"
  /\ reconnectAttempts = 1
  /\ BagIn(Timer("reconnect", 3000), timers)

\* C23: the frame of mt5NewOrder names the given order kind, or market when none
\* is given, and carries a price only when that kind is limit or stop.
C23_OrderPrice ==
  \A r \in Calls :
    calls[r].frame.type = "mt5_new_order" =>
      LET frame == calls[r].frame
          params == ops[calls[r].owner.id].params
      IN /\ frame.order_type =
              (IF params.order_type = None THEN "market" ELSE Value(params.order_type))
         /\ "price" \in DOMAIN frame => frame.order_type \in {"limit", "stop"}

\* C24: getSymbolPrice returns the quote of every error-free reply that carries
\* one, 0 included, and returns null only when its request was rejected or the
\* reply carried no tick quote.
C24_SymbolPrice ==
  \A o \in Ops :
    (ops[o].kind = "getSymbolPrice" /\ ops[o].pc = 0) =>
      \E r \in Calls :
        /\ calls[r].owner = [type |-> "op", id |-> o]
        /\ IF calls[r].state = "resolved" /\ calls[r].value.body # "data"
           THEN ops[o].result = Result("value", TRUE, "", calls[r].value.body)
           ELSE ops[o].result = Result("null", FALSE, "", "")

\* C25: isConnected is true exactly when the handle is non-null and open.
C25_FlagConsistency ==
  isConnected <=> (ws # 0 /\ sockets[ws].readyState = "OPEN")

\* C26: a frame of a typed operation is written on a socket only after the
\* authorize request written on that socket was resolved.
C26_AuthorizeFirst ==
  \A r \in Calls :
    (calls[r].owner.type = "op" /\ calls[r].wrote = "OPEN") =>
      \E a \in Calls :
        /\ calls[a].owner.type = "connect"
        /\ calls[a].frame.type = "authorize"
        /\ calls[a].sock = calls[r].sock
        /\ calls[a].state = "resolved"

\* No socket has reported an error or closed, and disconnect() was not called.
NoCloseYet ==
  \A t \in 1..Len(sockets) : sockets[t].readyState \in {"CONNECTING", "OPEN"}

\* C27: as long as no socket reported an error or closed, there are at most as
\* many sockets as connect() calls by callers plus requests of typed operations.
C27_BoundedTransports ==
  NoCloseYet =>
    Len(sockets) <=
      Cardinality({t \in 1..Len(sockets) : sockets[t].by = "caller"})
      + Cardinality({r \in Calls : calls[r].owner.type = "op"})

\* C28: the close event of a socket that is not the handle, while the handle is
\* another socket, counts no attempt and schedules no reconnection.
C28_ReconnectOnlyCurrent ==
  [][\A t \in 1..Len(sockets) :
       (/\ ws # 0 /\ ws # t
        /\ sockets[t].readyState # "CLOSED"
        /\ sockets'[t].readyState = "CLOSED") =>
         /\ reconnectAttempts' = reconnectAttempts
         /\ timers' = timers]_vars

\* C29: every frame sendRequest wrote was written while the handle was open.
C29_SendOnOpen ==
  \A r \in Calls : calls[r].wrote # "" => calls[r].wrote = "OPEN"

\* C30: every record in the pending map has its timeout armed.
C30_NoLeakedRecords ==
  \A id \in Pending : BagIn(Timer("timeout", id), timers)

====
